---- MODULE Spec2Model ----
(***************************************************************************)
(* A model of mystic's global searcher (src/mystic/search.py, class        *)
(* Searcher): the archive of memoized optimizer results, the two-level     *)
(* retry loop of Search, Reset, and the queries Minima, Values,            *)
(* Coordinates and Trajectories.                                           *)
(*                                                                         *)
(* Numbers.  Coordinates and energies are floats in the code.  The model   *)
(* draws them from the dyadic grid of sixteenths, which binary floats     *)
(* represent exactly: the integer q stands for the float q/16.  A float    *)
(* rounded to n decimals is represented by the integer r that stands for   *)
(* r/10^n.  -0.0 and 0.0 are equal as dictionary keys, and both are r = 0. *)
(*                                                                         *)
(* The archive.  A dictionary from canonical keys to values.  _memoize     *)
(* wraps it in klepto's inf_cache: the key of a call is the tuple of its   *)
(* positional arguments rounded at memtol, a call whose key is cached is a *)
(* hit and returns the cached value without storing, a miss stores the     *)
(* value of the call.                                                      *)
(*                                                                         *)
(* Search.  One thread of control.  It stops at the two places where the   *)
(* searcher hands over to the ensemble or takes over from it: before       *)
(* solver.Solve (pc = "solve") and after it, before the ensemble is        *)
(* memoized (pc = "memoize").  rounds and sprays record what the call has  *)
(* done: one record per spray with its id, its number of seekers and the   *)
(* archive size before and after it, grouped by outer round.               *)
(*                                                                         *)
(* A retained spray is represented by its id and its number of seekers.    *)
(* disp only prints and is left out.                                       *)
(***************************************************************************)
EXTENDS Integers, Sequences, FiniteSets, TLC

\* ------------------------------------------------------------------ bounds
MaxRetry == 2        \* largest retry given to the constructor
MaxNpts  == 2        \* largest ensemble size given to the constructor
MaxHist  == 1        \* a capturing Search starts only while the history is this short

\* The constructor's defaults (line 48).
DefaultRetry  == 1
DefaultTol    == 8
DefaultMemtol == 1

Retries  == -1..MaxRetry      \* the retry given to the constructor, one negative
Sizes    == 1..MaxNpts
Tols     == {0, 1}            \* the precisions given as tol and memtol
Coords   == {1, 2, 8}         \* 0.0625, 0.125, 0.5
Monitors == {"Monitor", "LoggingMonitor"}
\* The monitor and bounds given to Search: either monitor with bounds of one
\* dimension, and bounds of no dimension.
SearchArgs == {<<m, 1>> : m \in Monitors} \cup {<<"Monitor", 0>>}
None     == "None"            \* the value None as a result
\* An optional argument: left out, or given as x.
Omitted  == <<>>
Arg(x)   == <<x>>
Opt(S)   == {Omitted} \cup {Arg(x) : x \in S}

VARIABLES
    archive,      \* self.archive: canonical key -> stored value
    allSolvers,   \* self._allSolvers: the retained sprays
    inv,          \* self._inv
    traj,         \* self.traj
    npts,         \* self.npts
    retry,        \* self.retry
    tol,          \* self.tol
    memtol,       \* self.memtol
    solver,       \* self.solver, the configured ensemble (absent before Search)
    py3,          \* the interpreter's round(): half-even (3.x) or half-away (2.x)
    pc,           \* position of the running Search call, "idle" when none runs
    count,        \* Search's local count
    sid,          \* Search's local sid
    size,         \* Search's local size
    psize,        \* Search's local _size
    osize,        \* Search's local osize
    cur,          \* _search's local solver: the ensemble of the call's latest spray
    rounds,       \* the outer rounds the current Search call has completed
    sprays,       \* the sprays of the outer round in progress
    ret           \* what the most recent call returned or raised

vars == <<archive, allSolvers, inv, traj, npts, retry, tol, memtol, solver, py3,
          pc, count, sid, size, psize, osize, cur, rounds, sprays, ret>>

config == <<npts, retry, tol, memtol, py3>>
locals == <<count, sid, size, psize, osize, cur, rounds, sprays>>

\* ------------------------------------------------------------ pure helpers
RECURSIVE Pow10(_)
Pow10(n) == IF n = 0 THEN 1 ELSE 10 * Pow10(n - 1)

Abs(i) == IF i < 0 THEN -i ELSE i

\* round(q/16, n) of the interpreter, as the integer number of 10^-n units.
RoundMag(num, half_even) ==
    LET fl  == num \div 16
        rem == num % 16
    IN  IF 2 * rem < 16 THEN fl
        ELSE IF 2 * rem > 16 THEN fl + 1
        ELSE IF half_even /\ fl % 2 = 0 THEN fl
        ELSE fl + 1

Round(q, n, half_even) ==
    LET mag == RoundMag(Abs(q) * Pow10(n), half_even)
    IN  IF q < 0 THEN -mag ELSE mag

\* klepto's rounded_args + keymap: the tuple of the rounded positional args.
Key(x, n, half_even) == [i \in DOMAIN x |-> Round(x[i], n, half_even)]

EmptyArchive == <<>>
Len0(a) == Cardinality(DOMAIN a)
Put(a, k, v) == [j \in DOMAIN a \cup {k} |-> IF j = k THEN v ELSE a[j]]
Values0(a) == {a[k] : k \in DOMAIN a}

\* ---------------------------------------------------------------- _memoize
\* The sign applied to every stored value (line 111).
Sign(inverted) == IF inverted THEN -1 ELSE 1

\* Faulty variant: the cache is keyed by the arguments as given, not rounded.
MemoUnrounded(a, x, out, n, half_even) ==
    IF x \in DOMAIN a THEN a ELSE Put(a, x, out)

\* Faulty variant: a hit stores the value of the call over the cached one.
MemoOverwrite(a, x, out, n, half_even) == Put(a, Key(x, n, half_even), out)

\* Faulty variant: on a hit the cache keeps the smaller of the cached value
\* and the value of the call.
MemoKeepLeast(a, x, out, n, half_even) ==
    LET k == Key(x, n, half_even)
    IN  IF k \in DOMAIN a /\ a[k] <= out THEN a ELSE Put(a, k, out)

\* One call of the cached function memo (lines 107-109, 115): a key that is
\* already in the cache is a hit and leaves the cache as it is; a miss stores
\* the value of the call under the key.
Memo(a, x, out, n, half_even) ==
    LET k == Key(x, n, half_even)
    IN  IF k \in DOMAIN a THEN a ELSE Put(a, k, out)

\* The loop over solver._allSolvers (lines 112-115), in order.
RECURSIVE MemoizeFrom(_, _, _, _, _, _)
MemoizeFrom(a, results, i, l, n, half_even) ==
    IF i > Len(results) THEN a
    ELSE MemoizeFrom(Memo(a, results[i].bestSolution, l * results[i].bestEnergy, n, half_even),
                     results, i + 1, l, n, half_even)

\* Faulty variant: every spray is memoized into a cache of its own.
MemoizeFresh(a, results, inverted, n, half_even) ==
    MemoizeFrom(EmptyArchive, results, 1, Sign(inverted), n, half_even)

Memoize(a, results, inverted, n, half_even) ==
    MemoizeFrom(a, results, 1, Sign(inverted), n, half_even)

\* ------------------------------------------------------------------ Search
\* Faulty variant: count starts at 0 for every retry.
InitCountZero(r) == 0

\* count as Search initialises it (line 190).
InitCount(r) == IF r # 0 THEN 0 ELSE -1

\* Faulty variant: a round that grows the archive leaves count as it is.
NextCountNoReset(c, sz, osz) == IF sz = osz THEN c + 1 ELSE c

\* Faulty variant: the outer loop runs until count equals retry.
RetryingUntilEqual(r, c) == r # c

\* The test of the outer loop (line 192): self.retry > count.
Retrying(r, c) == r > c

\* Faulty variant: every round counts as unproductive.
NextCountAlways(c, sz, osz) == c + 1

\* count after an outer round (lines 198-199).
NextCount(c, sz, osz) == IF sz = osz THEN c + 1 ELSE 0

\* Faulty variant: the inner loop never repeats, a round is one spray.
SpraysAgainNever(sz, psz) == FALSE

\* Faulty variant: the inner loop also repeats after a spray that added nothing.
SpraysAgainOnEqual(sz, psz) == sz >= psz

\* The test of the inner loop (line 195): size > _size.
SpraysAgain(sz, psz) == sz > psz

\* Faulty variant: the id goes on from where the previous call left it.
FirstSidCarried == sid

\* The id of a call's first spray (line 191).
FirstSid == 0

\* Faulty variant: the id advances by one per spray.
NextSidBySpray(id, results) == id + 1

\* sid after a spray (line 157): advanced by the number of seekers that ran.
NextSid(id, results) == id + Len(results)

\* Faulty variant: with capture only the latest spray is retained.
RetainLatest(hist, capture, spray) == IF capture THEN <<spray>> ELSE hist

\* The retained history after a spray (line 156).
Retain(hist, capture, spray) == IF capture THEN Append(hist, spray) ELSE hist

\* The objective given to Search: 0.125 at 0.0625 and at 0.5, 0.5 at 0.125,
\* and the sum over the components in more dimensions.
RECURSIVE SumFrom(_, _)
SumFrom(x, i) == IF i > Len(x) THEN 0 ELSE (IF x[i] = 2 THEN 8 ELSE 2) + SumFrom(x, i + 1)
Model(x) == SumFrom(x, 1)

\* What one converged seeker exposes to the searcher: the point it stopped
\* at and the objective there.
Seeker(x) == [bestSolution |-> x, bestEnergy |-> Model(x)]

\* The converged ensembles a spray of n seekers in ndim dimensions can return.
Ensembles(n, ndim) == {[i \in 1..n |-> Seeker(xs[i])] : xs \in [1..n -> [1..ndim -> Coords]]}

NoSolver == [ndim |-> 0, stepmon |-> "absent"]
Returned(op, val) == [op |-> op, raised |-> "", val |-> val]
Raised(op, exc)   == [op |-> op, raised |-> exc, val |-> None]

ClearLocals ==
    /\ count' = 0 /\ sid' = 0 /\ size' = 0 /\ psize' = 0 /\ osize' = 0
    /\ cur' = <<>> /\ rounds' = <<>> /\ sprays' = <<>>

TypeOK ==
    /\ \A k \in DOMAIN archive : \A i \in DOMAIN k : k[i] \in Int
    /\ \A k \in DOMAIN archive : archive[k] \in Int
    /\ inv \in BOOLEAN /\ traj \in BOOLEAN /\ py3 \in BOOLEAN
    /\ npts \in Sizes /\ retry \in Retries
    /\ tol \in Tols \cup {DefaultTol} /\ memtol \in Tols \cup {DefaultMemtol}
    /\ pc \in {"idle", "solve", "memoize"}
    /\ count \in -1..MaxRetry /\ sid \in Nat /\ size \in Nat /\ osize \in Nat

\* The searcher as __init__ leaves it (lines 75-87), no call made yet.
Constructed ==
    /\ archive = EmptyArchive
    /\ allSolvers = <<>>
    /\ inv = FALSE
    /\ traj = FALSE
    /\ solver = NoSolver
    /\ pc = "idle"
    /\ count = 0 /\ sid = 0 /\ size = 0 /\ psize = 0 /\ osize = 0
    /\ cur = <<>> /\ rounds = <<>> /\ sprays = <<>>
    /\ ret = Returned("__init__", None)

\* Searchers of every ensemble size and retry, with the default precisions.
Init ==
    /\ Constructed
    /\ npts \in Sizes
    /\ retry \in Retries
    /\ tol = DefaultTol
    /\ memtol = DefaultMemtol
    /\ py3 = TRUE

\* Searchers of every precision under both interpreters' round().
InitRounding ==
    /\ Constructed
    /\ npts = MaxNpts
    /\ retry = DefaultRetry
    /\ tol \in Tols
    /\ memtol \in Tols
    /\ py3 \in BOOLEAN

\* Faulty variant: bounds of no dimension are configured and sprayed like any other.
SearchUnchecked(t, monitor, ndim) ==
    /\ pc = "idle"
    /\ traj' = IF t = Omitted THEN traj ELSE t[1]
    /\ traj' => Len(allSolvers) <= MaxHist
    /\ UNCHANGED <<archive, allSolvers, inv, config>>
    /\ solver' = [ndim |-> ndim, stepmon |-> monitor]
    /\ count' = InitCount(retry)
    /\ sid' = 0
    /\ cur' = <<>> /\ rounds' = <<>> /\ sprays' = <<>>
    /\ psize' = Len0(archive) /\ size' = Len0(archive) /\ osize' = Len0(archive)
    /\ pc' = "solve"
    /\ ret' = Returned("Search", "running")

\* Search up to its first spray (lines 187-196): the sticky flag, _configure,
\* the counters and the tests of both loops.
Search(t, monitor, ndim) ==
    /\ pc = "idle"
    /\ traj' = IF t = Omitted THEN traj ELSE t[1]
    /\ traj' => Len(allSolvers) <= MaxHist
    /\ UNCHANGED <<archive, allSolvers, inv, config>>
    /\ IF ndim = 0
       THEN \* _min, _max = zip(*bounds) has nothing to unpack (line 126)
            /\ ret' = Raised("Search", "ValueError")
            /\ pc' = "idle"
            /\ UNCHANGED solver
            /\ ClearLocals
       ELSE /\ solver' = [ndim |-> ndim, stepmon |-> monitor]
            /\ count' = InitCount(retry)
            /\ sid' = FirstSid
            /\ cur' = <<>> /\ rounds' = <<>> /\ sprays' = <<>>
            /\ IF Retrying(retry, count')
               THEN /\ psize' = Len0(archive)
                    /\ size' = Len0(archive)
                    /\ osize' = Len0(archive)
                    /\ pc' = "solve"
                    /\ ret' = Returned("Search", "running")
               ELSE /\ psize' = 0 /\ size' = 0 /\ osize' = 0
                    /\ pc' = "idle"
                    /\ ret' = Returned("Search", None)

\* Faulty variant: the results are written to the archive as the solve
\* delivers them, before _solve has returned.
SolveStreaming(results) ==
    /\ pc = "solve"
    /\ cur' = results
    /\ archive' = Memoize(archive, results, inv, memtol, py3)
    /\ pc' = "memoize"
    /\ UNCHANGED <<allSolvers, inv, traj, config, solver,
                   count, sid, size, psize, osize, rounds, sprays, ret>>

\* _solve returns the converged ensemble (lines 138-151, 155).
Solve(results) ==
    /\ pc = "solve"
    /\ cur' = results
    /\ pc' = "memoize"
    /\ UNCHANGED <<archive, allSolvers, inv, traj, config, solver,
                   count, sid, size, psize, osize, rounds, sprays, ret>>

\* Faulty variant: a failed spray empties the archive before the exception leaves.
SolveRaisesRollback ==
    /\ pc = "solve"
    /\ pc' = "idle"
    /\ archive' = EmptyArchive
    /\ ret' = Raised("Search", "SolveError")
    /\ ClearLocals
    /\ UNCHANGED <<allSolvers, inv, traj, config, solver>>

\* solver.Solve raises: the exception leaves _solve, _search and Search, and
\* Search's locals go with it.
SolveRaises ==
    /\ pc = "solve"
    /\ pc' = "idle"
    /\ ret' = Raised("Search", "SolveError")
    /\ ClearLocals
    /\ UNCHANGED <<archive, allSolvers, inv, traj, config, solver>>

\* The rest of _search (lines 156-162) and Search's loop control up to the
\* next spray or the return (lines 195-199, 192-196, 202).
SearchSpray ==
    /\ pc = "memoize"
    /\ allSolvers' = Retain(allSolvers, traj, [id |-> sid, n |-> Len(cur)])
    /\ sid' = NextSid(sid, cur)
    /\ archive' = Memoize(archive, cur, inv, memtol, py3)
    /\ UNCHANGED <<inv, traj, config, solver>>
    /\ LET newsize == Len0(archive')
           spray   == [id |-> sid, n |-> Len(cur), before |-> psize, after |-> newsize]
       IN  IF SpraysAgain(newsize, psize)
           THEN \* the inner loop sprays again (lines 195-196)
                /\ psize' = newsize
                /\ size' = newsize
                /\ sprays' = Append(sprays, spray)
                /\ pc' = "solve"
                /\ UNCHANGED <<count, osize, rounds, ret, cur>>
           ELSE \* the outer round ends (lines 198-199)
                /\ count' = NextCount(count, newsize, osize)
                /\ rounds' = Append(rounds, [grew |-> newsize # osize,
                                             sprays |-> Append(sprays, spray)])
                /\ sprays' = <<>>
                /\ IF Retrying(retry, count')
                   THEN /\ psize' = newsize
                        /\ size' = newsize
                        /\ osize' = newsize
                        /\ pc' = "solve"
                        /\ UNCHANGED <<ret, cur>>
                   ELSE /\ size' = newsize
                        /\ UNCHANGED <<psize, osize>>
                        /\ cur' = <<>>
                        /\ pc' = "idle"
                        /\ ret' = Returned("Search", None)

\* ------------------------------------------------------------------- Reset
NoArchive   == [kind |-> "None"]
SameArchive == [kind |-> "same"]
Given(a)    == [kind |-> "given", dict |-> a]
\* The archives a caller hands to Reset: none, the searcher's own archive
\* object, or another dictionary.
ExternalArchives == {Put(EmptyArchive, <<1>>, 2)}
ArchiveArgs == {NoArchive, SameArchive} \cup {Given(a) : a \in ExternalArchives}

\* Faulty variant: the current archive is cleared whether or not one is supplied.
ResetArchiveClearsAlways(a, arg) ==
    IF arg.kind = "given" THEN arg.dict ELSE EmptyArchive

\* The archive after lines 211-212.
ResetArchive(a, arg) ==
    IF arg.kind = "None" THEN EmptyArchive
    ELSE IF arg.kind = "same" THEN a
    ELSE arg.dict

\* Reset (lines 204-214).
Reset(arg, i) ==
    /\ pc = "idle"
    /\ archive' = ResetArchive(archive, arg)
    /\ allSolvers' = <<>>
    /\ inv' = IF i = Omitted THEN inv ELSE i[1]
    /\ ret' = [op |-> "Reset", raised |-> "", val |-> None, archive |-> arg, inv |-> i]
    /\ ClearLocals
    /\ UNCHANGED <<traj, config, solver, pc>>

\* ----------------------------------------------------------------- queries
\* The list Values returns, as the multiset of its elements: with unique,
\* every stored value once (lines 225-227).
ValuesOf(a, unique) ==
    [v \in Values0(a) |-> IF unique THEN 1 ELSE Cardinality({k \in DOMAIN a : a[k] = v})]

\* The list Coordinates returns, as the multiset of its elements: the keys
\* of a dictionary are distinct, with or without unique (lines 238-240).
CoordinatesOf(a, unique) == [k \in DOMAIN a |-> 1]

\* Faulty variant: the smallest value whatever the inversion flag.
BestAlwaysMin(S, inverted) == CHOOSE x \in S : \A y \in S : x <= y

\* min or max of a non-empty collection, element by element (lines 253-254).
RECURSIVE Best(_, _)
Best(S, inverted) ==
    LET x    == CHOOSE y \in S : TRUE
        rest == S \ {x}
    IN  IF rest = {} THEN x
        ELSE LET b == Best(rest, inverted)
             IN  IF inverted THEN (IF x > b THEN x ELSE b)
                 ELSE (IF x < b THEN x ELSE b)

\* Faulty variant: the extreme is rounded one decimal finer than the values.
MinimaOfFiner(a, t, inverted, half_even) ==
    LET m    == Best(Values0(a), inverted)
        keep == {k \in DOMAIN a : Round(a[k], t, half_even) = Round(m, t + 1, half_even)}
    IN  [k \in keep |-> a[k]]

\* The dictionary Minima builds (line 255).
MinimaOf(a, t, inverted, half_even) ==
    LET m    == Best(Values0(a), inverted)
        keep == {k \in DOMAIN a : Round(a[k], t, half_even) = Round(m, t, half_even)}
    IN  [k \in keep |-> a[k]]

\* Values (lines 216-227).
Values(unique) ==
    /\ pc = "idle"
    /\ ret' = Returned("Values", ValuesOf(archive, unique))
    /\ ClearLocals
    /\ UNCHANGED <<archive, allSolvers, inv, traj, config, solver, pc>>

\* Coordinates (lines 229-240).
Coordinates(unique) ==
    /\ pc = "idle"
    /\ ret' = Returned("Coordinates", CoordinatesOf(archive, unique))
    /\ ClearLocals
    /\ UNCHANGED <<archive, allSolvers, inv, traj, config, solver, pc>>

\* Minima (lines 242-255); min() and max() of no values raise ValueError.
Minima(t) ==
    /\ pc = "idle"
    /\ ret' = IF archive = EmptyArchive THEN Raised("Minima", "ValueError")
              ELSE [op |-> "Minima", raised |-> "", tol |-> t,
                    val |-> MinimaOf(archive, IF t = Omitted THEN tol ELSE t[1], inv, py3)]
    /\ ClearLocals
    /\ UNCHANGED <<archive, allSolvers, inv, traj, config, solver, pc>>

\* The trajectories of the retained sprays, seeker by seeker (lines 291-297):
\* here the identity of each seeker whose step monitor is read.
RECURSIVE Flatten(_, _)
Flatten(hist, i) ==
    IF i > Len(hist) THEN <<>>
    ELSE [j \in 1..hist[i].n |-> <<hist[i].id, j>>] \o Flatten(hist, i + 1)

\* Faulty variant: the retained sprays are read whatever the capture flag.
TrajectoriesIgnoringFlag ==
    /\ pc = "idle"
    /\ ret' = Returned("Trajectories", Flatten(allSolvers, 1))
    /\ ClearLocals
    /\ UNCHANGED <<archive, allSolvers, inv, traj, config, solver, pc>>

\* Trajectories (lines 279-299).  Without capture the step log is read by the
\* file name of the configured monitor; self.solver is absent before Search
\* and a plain Monitor has no _filename: both are AttributeError (line 287).
Trajectories ==
    /\ pc = "idle"
    /\ ret' = IF ~traj
              THEN IF solver.stepmon = "LoggingMonitor"
                   THEN Returned("Trajectories", "steplog")
                   ELSE Raised("Trajectories", "RuntimeError")
              ELSE Returned("Trajectories", Flatten(allSolvers, 1))
    /\ ClearLocals
    /\ UNCHANGED <<archive, allSolvers, inv, traj, config, solver, pc>>

\* ----------------------------------------------------------- specification
Next ==
    \/ \E t \in Opt(BOOLEAN), a \in SearchArgs : Search(t, a[1], a[2])
    \/ pc = "solve" /\ \E r \in Ensembles(npts, solver.ndim) : Solve(r)
    \/ SolveRaises
    \/ SearchSpray
    \/ \E a \in ArchiveArgs, i \in Opt(BOOLEAN) : Reset(a, i)
    \/ \E u \in BOOLEAN : Values(u)
    \/ \E u \in BOOLEAN : Coordinates(u)
    \/ \E t \in Opt(Tols) : Minima(t)
    \/ Trajectories

Spec == Init /\ [][Next]_vars

SpecRounding == InitRounding /\ [][Next]_vars

\* ------------------------------------------------------------------ claims
SearchReturned == pc = "idle" /\ ret = Returned("Search", None)
SearchRunning  == pc # "idle"

\* The number of rounds at the end of rs that did not grow the archive.
RECURSIVE Trailing(_)
Trailing(rs) ==
    IF rs = <<>> \/ rs[Len(rs)].grew THEN 0
    ELSE 1 + Trailing(SubSeq(rs, 1, Len(rs) - 1))

Grew(rs) == [i \in DOMAIN rs |-> rs[i].grew]

\* C1: with retry = 0 a Search call is in its first outer round with count = -1
\* for as long as it runs, and when it returns it has completed exactly one
\* outer round and count is 0, whether or not that round grew the archive.
C1_ZeroRetryOneRound ==
    retry = 0 =>
        /\ SearchRunning => rounds = <<>> /\ count = -1
        /\ SearchReturned => Len(rounds) = 1 /\ count = 0

C1_Witness ==
    /\ retry = 0
    /\ SearchReturned
    /\ Len(rounds) = 1
    /\ ~rounds[1].grew
    /\ Len(rounds[1].sprays) = 1

\* C2: with retry = R > 0 the count is the number of consecutive outer rounds
\* at the end of the call so far that did not grow the archive (a round that
\* grows it resets the count to zero), Search keeps running while that number
\* is below R and returns with the round that makes it R.  With R = 2 and
\* rounds that go grow, grow, no-grow, no-grow, Search has returned after the
\* fourth round and there is no fifth.
C2_RetryExhaustion ==
    retry > 0 =>
        /\ SearchRunning => count = Trailing(rounds) /\ count < retry
        /\ SearchReturned =>
              /\ Trailing(rounds) = retry
              /\ count = retry
              /\ \A n \in 0..(Len(rounds) - 1) : Trailing(SubSeq(rounds, 1, n)) < retry
        /\ (retry = 2 /\ Len(rounds) >= 4
              /\ Grew(SubSeq(rounds, 1, 4)) = <<TRUE, TRUE, FALSE, FALSE>>)
           => Len(rounds) = 4 /\ SearchReturned

C2_Witness ==
    /\ retry = 2
    /\ SearchReturned
    /\ Grew(rounds) = <<TRUE, TRUE, FALSE, FALSE>>

\* C3: no step of a Search call makes the archive smaller, every spray leaves
\* the archive at least as large as it found it, and the only call that makes
\* the archive smaller is Reset.
C3_ArchiveNeverShrinks ==
    [][/\ Len0(archive') < Len0(archive) => pc = "idle" /\ ret'.op = "Reset"
       /\ (pc # "idle" \/ pc' # "idle") => DOMAIN archive \subseteq DOMAIN archive'
       /\ \A i \in DOMAIN sprays' : sprays'[i].after >= sprays'[i].before]_vars

C3_Witness ==
    /\ SearchReturned
    /\ Len(rounds) >= 2
    /\ Len0(archive) >= 2
    /\ \E i \in DOMAIN rounds : \E j \in DOMAIN rounds[i].sprays :
          rounds[i].sprays[j].after > rounds[i].sprays[j].before

\* The canonical keys of the ensemble being memoized.
KeyOf(i) == Key(cur[i].bestSolution, memtol, py3)
SprayKeys == {KeyOf(i) : i \in DOMAIN cur}
FirstWith(k) == CHOOSE i \in DOMAIN cur : KeyOf(i) = k /\ \A j \in DOMAIN cur : KeyOf(j) = k => i <= j
LastWith(k)  == CHOOSE i \in DOMAIN cur : KeyOf(i) = k /\ \A j \in DOMAIN cur : KeyOf(j) = k => j <= i
Stored(i) == Sign(inv) * cur[i].bestEnergy

\* The record of the spray memoized last in the current Search call.
LastSpray ==
    IF sprays # <<>> THEN sprays[Len(sprays)]
    ELSE rounds[Len(rounds)].sprays[Len(rounds[Len(rounds)].sprays)]

\* C4: memoizing a spray adds exactly one archive entry for each canonical
\* key that the spray's results round to and that the archive did not hold:
\* results that round to a key already held, or to the key of an earlier
\* result of the same spray, do not increase the archive size.
C4_DedupIdempotence ==
    [][pc = "memoize" =>
          /\ DOMAIN archive' = DOMAIN archive \cup SprayKeys
          /\ Len0(archive') = Len0(archive) + Cardinality(SprayKeys \ DOMAIN archive)]_vars

C4_Witness ==
    /\ pc = "solve"
    /\ Len(cur) = 2
    /\ cur[1].bestSolution # cur[2].bestSolution
    /\ KeyOf(1) = KeyOf(2)
    /\ sprays # <<>>
    /\ LastSpray.before = 0
    /\ LastSpray.after = 1
    /\ Len0(archive) = 1

\* C5 as claimed: after memoization the entry of every key the spray's results
\* round to holds the value of the most recent result with that key.
C5_LastWriteWins ==
    [][pc = "memoize" => \A k \in SprayKeys : archive'[k] = Stored(LastWith(k))]_vars

\* C5 as amended: the first write wins.  Memoization leaves every entry the
\* archive already held as it was, and the entry of a new key holds the value
\* of the first result of the spray that rounds to it.
C5_FirstWriteWins ==
    [][pc = "memoize" =>
          /\ \A k \in DOMAIN archive : archive'[k] = archive[k]
          /\ \A k \in SprayKeys \ DOMAIN archive : archive'[k] = Stored(FirstWith(k))]_vars

C5_Witness ==
    /\ pc = "solve"
    /\ Len(cur) = 2
    /\ KeyOf(1) = KeyOf(2)
    /\ cur[1].bestEnergy # cur[2].bestEnergy
    /\ sprays # <<>>
    /\ LastSpray.before = 0
    /\ LastSpray.after = 1
    /\ archive[KeyOf(1)] = Stored(1)
    /\ archive[KeyOf(2)] # Stored(2)

MinimaReturned == ret.op = "Minima" /\ ret.raised = ""

\* C6: whenever the archive is not empty, Minima returns for every tol and
\* either inversion flag a non-empty dictionary whose keys are archive keys
\* and whose values are the archive's values for them.
C6_MinimaSubset ==
    /\ ret.op = "Minima" => (ret.raised = "" <=> archive # EmptyArchive)
    /\ MinimaReturned =>
          /\ DOMAIN ret.val # {}
          /\ DOMAIN ret.val \subseteq DOMAIN archive
          /\ \A k \in DOMAIN ret.val : ret.val[k] = archive[k]
    /\ archive # EmptyArchive =>
          \A t \in Tols \cup {tol} :
              LET m == MinimaOf(archive, t, inv, py3)
              IN  /\ DOMAIN m # {}
                  /\ DOMAIN m \subseteq DOMAIN archive
                  /\ \A k \in DOMAIN m : m[k] = archive[k]

C6_Witness ==
    /\ MinimaReturned
    /\ inv
    /\ Len0(archive) >= 2
    /\ Len0(ret.val) = 1

\* The least archive value, or the greatest under inversion.
Extreme(a, inverted) ==
    CHOOSE v \in Values0(a) : \A w \in Values0(a) : IF inverted THEN w <= v ELSE v <= w

\* C7: Minima(tol) returns exactly the archive entries whose value rounded at
\* tol equals the rounded least archive value, or greatest under inversion;
\* tol is the configured tol when none is given, whatever memtol is.
C7_MinimaExact ==
    MinimaReturned =>
        LET t == IF ret.tol = Omitted THEN tol ELSE ret.tol[1]
            e == Extreme(archive, inv)
        IN  /\ DOMAIN ret.val =
                  {k \in DOMAIN archive : Round(archive[k], t, py3) = Round(e, t, py3)}
            /\ \A k \in DOMAIN ret.val : ret.val[k] = archive[k]

C7_Witness ==
    /\ MinimaReturned
    /\ inv
    /\ ret.tol = Omitted
    /\ tol # memtol
    /\ Len0(archive) >= 2
    /\ Len0(ret.val) = 1
    /\ \E k \in DOMAIN ret.val : ret.val[k] = Extreme(archive, TRUE)
    /\ Extreme(archive, TRUE) # Extreme(archive, FALSE)

\* C8: Reset with no archive empties the archive, Reset with an archive makes
\* that archive, contents unchanged, the archive; either way the retained
\* history becomes empty, the inversion flag becomes inv when inv is given and
\* is kept otherwise, and npts, retry, tol, memtol and traj are kept.
C8_ResetFrame ==
    [][ret'.op = "Reset" =>
          /\ ret'.archive.kind = "None" => archive' = EmptyArchive
          /\ ret'.archive.kind = "same" => archive' = archive
          /\ ret'.archive.kind = "given" => archive' = ret'.archive.dict
          /\ allSolvers' = <<>>
          /\ inv' = IF ret'.inv = Omitted THEN inv ELSE ret'.inv[1]
          /\ UNCHANGED <<npts, retry, tol, memtol, traj>>]_vars

C8_Witness ==
    /\ ret.op = "Reset"
    /\ ret.archive.kind = "same"
    /\ ret.inv = Arg(TRUE)
    /\ inv
    /\ traj
    /\ allSolvers = <<>>
    /\ Len0(archive) >= 2
    /\ \A k \in DOMAIN archive : archive[k] > 0

\* C9: when the ensemble solve of a spray raises, Search ends there with the
\* exception, and the failed spray changes neither the archive nor the
\* retained history: the archive is as the last completed spray left it.
C9_SolveFailure ==
    [][(pc = "solve" /\ ret'.raised = "SolveError") =>
          /\ pc' = "idle"
          /\ archive' = archive
          /\ allSolvers' = allSolvers
          /\ Len0(archive') = size]_vars

C9_Witness ==
    /\ pc = "idle"
    /\ ret = Raised("Search", "SolveError")
    /\ traj
    /\ Len(allSolvers) >= 2
    /\ Len0(archive) >= 2

\* C10: Trajectories changes no state of the searcher, and with trajectory
\* capture off and no step log of a configured logging monitor to read (no
\* solver configured yet, or one with a plain monitor) it raises the usage
\* error.
C10_TrajectoriesUsageError ==
    [][ret'.op = "Trajectories" =>
          /\ UNCHANGED <<archive, allSolvers, inv, traj, npts, retry, tol, memtol, solver, pc>>
          /\ (~traj /\ solver.stepmon # "LoggingMonitor")
                => ret' = Raised("Trajectories", "RuntimeError")]_vars

C10_Witness ==
    /\ ret = Raised("Trajectories", "RuntimeError")
    /\ ~traj
    /\ solver = NoSolver
    /\ archive # EmptyArchive

\* C11: a Search call with bounds of no dimension ends at once with the error
\* raised in _configure: no ensemble is configured, no round and no spray is
\* run, and the archive and the retained history are as they were.
C11_ZeroDimRejected ==
    [][\A t \in Opt(BOOLEAN), m \in Monitors :
          Search(t, m, 0) =>
              /\ ret' = Raised("Search", "ValueError")
              /\ pc' = "idle"
              /\ rounds' = <<>> /\ sprays' = <<>> /\ cur' = <<>>
              /\ UNCHANGED <<archive, allSolvers, solver>>]_vars

C11_Witness ==
    /\ ret = Raised("Search", "ValueError")
    /\ pc = "idle"
    /\ archive # EmptyArchive
    /\ allSolvers # <<>>
    /\ solver # NoSolver

\* An archive with every stored value negated, and the ensemble the same
\* seekers make of the negated objective: the same points, the energies negated.
Negate(a) == [k \in DOMAIN a |-> -a[k]]
NegatedObjective(results) ==
    [i \in DOMAIN results |-> [bestSolution |-> results[i].bestSolution,
                               bestEnergy   |-> -results[i].bestEnergy]]
SameKeysNegatedValues(a, b) ==
    /\ DOMAIN a = DOMAIN b
    /\ \A k \in DOMAIN a : a[k] = -b[k]

\* The twin of the running Search: a searcher with the other inversion flag,
\* the same npts, retry and precisions, whose archive is the negation of this
\* one's and whose spray stopped at the same points.  Both loops of Search
\* read archive sizes only (lines 194-199), so twins whose archives have the
\* same keys after every spray run the same sprays, and what holds of every
\* spray holds of the whole call.
\*
\* C12 as claimed: the twin searches the negated objective; after every spray
\* the two archives have the same keys and negated values.
C12_NegatedObjectiveTwin ==
    [][pc = "memoize" =>
          SameKeysNegatedValues(
              Memoize(Negate(archive), NegatedObjective(cur), ~inv, memtol, py3),
              archive')]_vars

\* C12 as amended: the twin searches the same objective; after every spray
\* the two archives have the same keys and negated values.
C12_InversionSymmetry ==
    [][pc = "memoize" =>
          SameKeysNegatedValues(Memoize(Negate(archive), cur, ~inv, memtol, py3),
                                archive')]_vars

C12_Witness ==
    /\ SearchReturned
    /\ inv
    /\ Len(rounds) >= 2
    /\ Len0(archive) >= 2
    /\ \A k \in DOMAIN archive : archive[k] < 0
    /\ \E k \in DOMAIN archive :
          \E r \in Ensembles(1, Len(k)) :
              /\ Key(r[1].bestSolution, memtol, py3) = k
              /\ archive[k] # -r[1].bestEnergy

\* A spray record that strictly increased the archive size.
Added(sp) == sp.after > sp.before

\* C13: every completed outer round has at least one spray, every spray of a
\* round but the last strictly increased the archive size and the last did
\* not; the measure is the archive itself; and after a spray the round goes on
\* with a further spray exactly when that spray strictly increased the archive
\* size, and ends there otherwise.
C13_InnerLoop ==
    /\ [](/\ \A i \in DOMAIN rounds :
                /\ rounds[i].sprays # <<>>
                /\ \A j \in DOMAIN rounds[i].sprays :
                      Added(rounds[i].sprays[j]) <=> j < Len(rounds[i].sprays)
          /\ \A j \in DOMAIN sprays : Added(sprays[j])
          /\ pc = "memoize" => psize = Len0(archive))
    /\ [][pc = "memoize" =>
            IF Len0(archive') > Len0(archive)
            THEN pc' = "solve" /\ rounds' = rounds /\ Len(sprays') = Len(sprays) + 1
            ELSE Len(rounds') = Len(rounds) + 1 /\ sprays' = <<>>]_vars

C13_Witness ==
    /\ SearchReturned
    /\ \E i \in DOMAIN rounds : Len(rounds[i].sprays) >= 3
    /\ \E i \in DOMAIN rounds : Len(rounds[i].sprays) = 1

\* The sprays the current Search call has memoized, in the order it ran them.
RECURSIVE SpraysOf(_)
SpraysOf(rs) == IF rs = <<>> THEN <<>> ELSE rs[1].sprays \o SpraysOf(Tail(rs))
AllSprays == SpraysOf(rounds) \o sprays

\* The number of seekers run by the first j sprays of sps.
RECURSIVE Seekers(_, _)
Seekers(sps, j) == IF j = 0 THEN 0 ELSE sps[j].n + Seekers(sps, j - 1)

IdRange(sp) == sp.id .. (sp.id + sp.n - 1)

\* C14: in one Search call the id of every spray is the number of seekers run
\* by the earlier sprays of the call, 0 for the first, and the id of the next
\* spray is the number run so far; so the ids strictly increase and the id
\* ranges of two sprays are disjoint.
C14_SprayIds ==
    LET sps == AllSprays
    IN  /\ \A j \in DOMAIN sps :
              /\ sps[j].n = npts
              /\ sps[j].id = Seekers(sps, j - 1)
        /\ SearchRunning => sid = Seekers(sps, Len(sps))
        /\ \A i, j \in DOMAIN sps :
              i < j => /\ sps[i].id < sps[j].id
                       /\ IdRange(sps[i]) \cap IdRange(sps[j]) = {}

C14_Witness ==
    /\ SearchReturned
    /\ npts = MaxNpts
    /\ Len(rounds) >= 2
    /\ Len(AllSprays) >= 4
    /\ AllSprays[4].id = 3 * MaxNpts

\* The last n entries of the retained history.
Latest(hist, n) == SubSeq(hist, Len(hist) - n + 1, Len(hist))
Entry(sp) == [id |-> sp.id, n |-> sp.n]

\* C15: with capture on, every spray of a Search call appends one entry, its
\* ensemble, to the retained history, so the entries the call has added are
\* its sprays in the order it ran them; no other step of Search touches the
\* history, and with capture off no step of Search does.
C15_HistoryCapture ==
    /\ []((traj /\ (SearchRunning \/ SearchReturned)) =>
             /\ Len(allSolvers) >= Len(AllSprays)
             /\ Latest(allSolvers, Len(AllSprays)) =
                   [j \in DOMAIN AllSprays |-> Entry(AllSprays[j])])
    /\ [][IF pc = "memoize" /\ traj
          THEN /\ allSolvers' = Append(allSolvers, [id |-> sid, n |-> Len(cur)])
               /\ Len(AllSprays') = Len(AllSprays) + 1
          ELSE (pc # "idle" \/ ret'.op = "Search") => allSolvers' = allSolvers]_vars

C15_Witness ==
    /\ SearchReturned
    /\ traj
    /\ Len(AllSprays) >= 2
    /\ Len(allSolvers) > Len(AllSprays)

\* C16: the archive is not written while a spray is being solved; it is
\* written only by the memoization that follows a solve (and by Reset, between
\* calls); and when the next solve begins every result of the spray before it
\* is in the archive and counted in size.
C16_SpraysSerialized ==
    [][/\ pc = "solve" => archive' = archive
       /\ archive' # archive => (pc = "memoize" \/ (pc = "idle" /\ ret'.op = "Reset"))
       /\ (pc = "memoize" /\ pc' = "solve") =>
             /\ SprayKeys \subseteq DOMAIN archive'
             /\ size' = Len0(archive')
             /\ psize' = Len0(archive')]_vars

C16_Witness ==
    /\ pc = "solve"
    /\ Len(AllSprays) >= 2
    /\ cur # <<>>
    /\ SprayKeys \subseteq DOMAIN archive
    /\ LastSpray.after = Len0(archive)
    /\ LastSpray.after > LastSpray.before

\* ------------------------------------------------------------ termination
\* A spray that has been started comes back: solver.Solve returns or raises.
SolveEnds == (\E r \in Ensembles(npts, solver.ndim) : Solve(r)) \/ SolveRaises

\* Search is one thread that runs when it can: a spray that is being solved
\* ends, and the searcher then memoizes it and decides on the next.
\* The searchers of every retry whose sprays are of one seeker.
InitFair ==
    /\ Constructed
    /\ npts = 1
    /\ retry \in Retries
    /\ tol = DefaultTol
    /\ memtol = DefaultMemtol
    /\ py3 = TRUE

SpecFair == InitFair /\ [][Next]_vars /\ WF_vars(SolveEnds) /\ WF_vars(SearchSpray)

\* The canonical keys the sprays of the configured ensemble can produce, and
\* how many of them the archive does not hold yet.
CanonicalKeys == {Key(x, memtol, py3) : x \in [1..solver.ndim -> Coords]}
Room == Cardinality(CanonicalKeys \ DOMAIN archive)

\* The unproductive rounds Search still tolerates, and at most tolerates.
Patience == retry - count
MaxPatience == retry - InitCount(retry)

\* What bounds the sprays a running Search can still make: the keys left to
\* find, then whether the round in progress has grown the archive (its end
\* will reset the count), then the patience left.
Measure ==
    Room * 2 * (MaxPatience + 1)
      + (IF size # osize THEN MaxPatience + 1 ELSE 0)
      + Patience

\* C17: every Search call whose sprays all end comes to an end itself, for
\* every retry, the canonical keys being finitely many: every spray either
\* adds a key, or ends a round that had grown the archive, or uses up one unit
\* of patience, so every spray strictly lowers a measure that is never negative.
C17_SearchTerminates ==
    /\ SearchRunning ~> ~SearchRunning
    /\ [][pc = "memoize" => (0 <= Measure' /\ Measure' < Measure)]_vars

C17_Witness ==
    /\ SearchReturned
    /\ npts = 1
    /\ retry = MaxRetry
    /\ Len(rounds) > MaxRetry + 1
    /\ Len(AllSprays) > Len(rounds) + 1

\* C18: an outer round that did not grow the archive is one spray, which
\* added nothing; a round that grew it is two sprays or more, of which all but
\* the last added something; a Search call with retry >= 0 returns on a spray
\* that added nothing, and with retry = R >= 1 none of its last R sprays added
\* anything.
C18_RoundShapes ==
    /\ [](/\ \A i \in DOMAIN rounds :
                LET sps == rounds[i].sprays
                IN  IF rounds[i].grew
                    THEN /\ Len(sps) >= 2
                         /\ \A j \in DOMAIN sps : Added(sps[j]) <=> j < Len(sps)
                    ELSE Len(sps) = 1 /\ ~Added(sps[1])
          /\ (SearchReturned /\ retry >= 0) =>
                /\ AllSprays # <<>>
                /\ Len(AllSprays) >= retry
                /\ \A j \in DOMAIN AllSprays :
                      j > Len(AllSprays) - retry => ~Added(AllSprays[j]))
    /\ [][(retry >= 0 /\ ~SearchReturned /\ SearchReturned') =>
             /\ pc = "memoize"
             /\ Len0(archive') = Len0(archive)]_vars

C18_Witness ==
    /\ SearchReturned
    /\ retry = 2
    /\ Grew(rounds) = <<TRUE, FALSE, TRUE, FALSE, FALSE>>
    /\ Len(rounds[3].sprays) = 2

\* C19: a searcher with a negative retry never runs a round or a spray: its
\* Search call, given bounds of some dimension, configures the ensemble and
\* returns at once, the archive and the retained history as they were.
C19_NegativeRetry ==
    /\ [](retry < 0 => (pc = "idle" /\ AllSprays = <<>> /\ allSolvers = <<>>))
    /\ [][\A t \in Opt(BOOLEAN), m \in Monitors :
             (retry < 0 /\ Search(t, m, 1)) =>
                 /\ solver' = [ndim |-> 1, stepmon |-> m]
                 /\ SearchReturned'
                 /\ UNCHANGED <<archive, allSolvers>>]_vars

C19_Witness ==
    /\ retry < 0
    /\ SearchReturned
    /\ solver # NoSolver
    /\ archive # EmptyArchive
    /\ traj

\* C20: between the calls of Search nothing but Reset changes the archive or
\* the retained history, and the start of a Search call leaves both as the
\* previous call left them; every call numbers its sprays from 0 again.  The
\* witness is a retained history that holds two sprays with the same id.
C20_CarryOver ==
    /\ [](AllSprays # <<>> => AllSprays[1].id = 0)
    /\ [][/\ (pc = "idle" /\ ret'.op # "Reset") =>
                UNCHANGED <<archive, allSolvers>>
          /\ (pc = "idle" /\ pc' = "solve") =>
                /\ sid' = 0
                /\ size' = Len0(archive)
                /\ osize' = Len0(archive)]_vars

C20_Witness ==
    /\ SearchReturned
    /\ traj
    /\ Len(allSolvers) > Len(AllSprays)
    /\ AllSprays # <<>>
    /\ allSolvers[1].id = 0
    /\ allSolvers[Len(allSolvers) - Len(AllSprays) + 1].id = 0
    /\ LastSpray.before > 0

====
